---- MODULE Spec2Model ----
(***************************************************************************)
(* A model of the credential resolution pipeline of the provider:          *)
(* xac/provider.go, the schema declared by Provider() and the              *)
(* ConfigureFunc providerConfigure.                                        *)
(*                                                                         *)
(* One run of the provider is modelled: the configuration (ResourceData)   *)
(* is fixed in the initial state, the host may validate it against the     *)
(* schema, and providerConfigure then runs statement group by statement    *)
(* group.  The calls that leave the process (ratelimit.Check and the STS   *)
(* AssumeRole call) are recorded in `trace`, the requests put on the wire  *)
(* in `dispatched`.                                                        *)
(*                                                                         *)
(* Text that the code handles character by character (the environment      *)
(* value given to strconv.Atoi, the policy given to url.QueryEscape) is a  *)
(* sequence of one-character strings; all other text is a TLA+ string.     *)
(* A uint64 is a sequence of four 16-bit limbs, most significant first,    *)
(* so that the int-to-uint64 conversion keeps its 64-bit width.            *)
(***************************************************************************)
EXTENDS Integers, Sequences, FiniteSets, TLC

VARIABLES
    d,                          \* the *schema.ResourceData given to the provider
    validated,                  \* the host ran the schema validation on d
    pc,                         \* position of the run
    tcClient,                   \* tcClient.apiV3Conn
    assumeRoleList,             \* d.Get("assume_role").(*schema.Set).List()
    assumeRoleArn,
    assumeRoleSessionName,
    assumeRoleSessionDuration,
    assumeRolePolicy,
    duration,                   \* os.Getenv(PROVIDER_ASSUME_ROLE_SESSION_DURATION)
    request,                    \* the *sts.AssumeRoleRequest being built
    response,                   \* the *sts.AssumeRoleResponse
    trace,                      \* the external calls made, in order
    dispatched,                 \* the requests handed to AssumeRole, in order
    ret                         \* what the run returned

vars == << d, validated, pc, tcClient, assumeRoleList, assumeRoleArn,
           assumeRoleSessionName, assumeRoleSessionDuration, assumeRolePolicy,
           duration, request, response, trace, dispatched, ret >>

(***************************************************************************)
(* Bounds of the model.                                                    *)
(***************************************************************************)
MaxEnvLen == 5          \* longest environment value tried
MaxPolicyLen == 3       \* longest policy tried
MaxEntries == 2         \* most assume_role entries tried (the schema allows 1)

(***************************************************************************)
(* Constants of the program.                                               *)
(***************************************************************************)
DefaultSessionDuration == 7200
MinSessionDuration == 0
MaxSessionDuration == 43200
MaxItems == 1

LimbBase == 2 ^ 16

SeqsUpTo(S, n) == UNION { [1..k -> S] : k \in 0..n }

(***************************************************************************)
(* strconv.Atoi on a short string: an optional sign, then decimal digits.  *)
(* Anything else is a syntax error, and the value returned with an error   *)
(* is 0.  Strings here are shorter than 10 characters, so the value fits   *)
(* an int and the range error of longer inputs cannot happen.              *)
(***************************************************************************)
Digits == << "0", "1", "2", "3", "4", "5", "6", "7", "8", "9" >>

IsDigit(c) == \E i \in 1..10 : Digits[i] = c

DigitVal(c) == (CHOOSE i \in 1..10 : Digits[i] = c) - 1

RECURSIVE ParseDigits(_, _)
ParseDigits(s, acc) ==
    IF s = << >> THEN acc
    ELSE ParseDigits(Tail(s), acc * 10 + DigitVal(Head(s)))

Atoi(s) ==
    LET signed == Len(s) > 0 /\ Head(s) \in {"+", "-"}
        body   == IF signed THEN Tail(s) ELSE s
        bad    == Len(body) = 0 \/ \E i \in 1..Len(body) : ~IsDigit(body[i])
        n      == ParseDigits(body, 0)
    IN  IF bad THEN [err |-> "strconv.Atoi: invalid syntax", val |-> 0]
        ELSE [err |-> "nil",
              val |-> IF signed /\ Head(s) = "-" THEN 0 - n ELSE n]

(***************************************************************************)
(* uint64(v) of an int v: the two's complement of a negative v.            *)
(***************************************************************************)
Limbs(v) ==
    << 0, 0, (v \div LimbBase) % LimbBase, v % LimbBase >>

ToUint64(v) ==
    IF v >= 0 THEN Limbs(v)
    ELSE [i \in 1..4 |-> (LimbBase - 1) - Limbs((0 - v) - 1)[i]]

(***************************************************************************)
(* url.QueryEscape: a space becomes "+", an unreserved character stays,    *)
(* every other byte becomes "%" and its two upper-case hex digits.         *)
(***************************************************************************)
Unreserved ==
    { "a", "b", "c", "d", "e", "f", "g", "h", "i", "j", "k", "l", "m",
      "n", "o", "p", "q", "r", "s", "t", "u", "v", "w", "x", "y", "z",
      "A", "B", "C", "D", "E", "F", "G", "H", "I", "J", "K", "L", "M",
      "N", "O", "P", "Q", "R", "S", "T", "U", "V", "W", "X", "Y", "Z",
      "0", "1", "2", "3", "4", "5", "6", "7", "8", "9",
      "-", "_", ".", "~" }

HexOf(c) ==
    CASE c = "/"  -> << "2", "F" >>
      [] c = "+"  -> << "2", "B" >>
      [] c = "%"  -> << "2", "5" >>
      [] c = ":"  -> << "3", "A" >>
      [] c = "="  -> << "3", "D" >>
      [] c = "&"  -> << "2", "6" >>
      [] c = "{"  -> << "7", "B" >>
      [] c = "}"  -> << "7", "D" >>

EscapeChar(c) ==
    IF c = " " THEN << "+" >>
    ELSE IF c \in Unreserved THEN << c >>
    ELSE << "%" >> \o HexOf(c)

RECURSIVE QueryEscape(_)
QueryEscape(s) ==
    IF s = << >> THEN << >>
    ELSE EscapeChar(Head(s)) \o QueryEscape(Tail(s))

(***************************************************************************)
(* common.NewTokenCredential                                               *)
(***************************************************************************)
NewTokenCredential(secretId, secretKey, token) ==
    [SecretId |-> secretId, SecretKey |-> secretKey, Token |-> token]

(***************************************************************************)
(* The configurations tried.  A string field holds the value d.Get gives,  *)
(* so "" stands for a field left empty.  The assume_role set is given in   *)
(* the order List() returns it; its entries are distinct, as a set's are.  *)
(***************************************************************************)
EnvAlphabet == { "0", "6", "-", "a" }

EnvValues == SeqsUpTo(EnvAlphabet, MaxEnvLen)

PolicyAlphabet == { "a", " ", "/" }

Policies == SeqsUpTo(PolicyAlphabet, MaxPolicyLen)

NoPolicy == << >>

SomePolicy == << "a", " ", "b" >>

SessionDurations == { 0 - 1, 0, 3600, MaxSessionDuration, MaxSessionDuration + 1 }

AssumeRoleEntry(arn, name, dur, pol) ==
    [role_arn |-> arn, session_name |-> name,
     session_duration |-> dur, policy |-> pol]

MainEntries ==
    { AssumeRoleEntry(arn, name, dur, pol) :
        arn \in {"", "role"}, name \in {"", "session"},
        dur \in SessionDurations, pol \in {NoPolicy, SomePolicy} }

PolicyEntries ==
    { AssumeRoleEntry("role", "session", dur, pol) :
        dur \in {0, 3600}, pol \in Policies }

IsSetList(l) == \A i, j \in 1..Len(l) : l[i] = l[j] => i = j

AssumeRoleLists ==
    { l \in SeqsUpTo(MainEntries, MaxEntries) : IsSetList(l) }
    \cup { << e >> : e \in PolicyEntries }

BaseConfig(token, protocol, domain) ==
    [secret_id |-> "AKID", secret_key |-> "KEY", security_token |-> token,
     region |-> "ap-guangzhou", protocol |-> protocol, domain |-> domain]

BaseConfigs ==
    { BaseConfig("", "HTTPS", ""), BaseConfig("TOKEN", "HTTP", "example.com") }

Config(b, l) ==
    [secret_id |-> b.secret_id, secret_key |-> b.secret_key,
     security_token |-> b.security_token, region |-> b.region,
     protocol |-> b.protocol, domain |-> b.domain, assume_role |-> l]

Configs == { Config(b, l) : b \in BaseConfigs, l \in AssumeRoleLists }

(***************************************************************************)
(* What the STS endpoint may answer: an error, or temporary credentials.   *)
(***************************************************************************)
StsCredentials ==
    { NewTokenCredential("TMPID", "TMPKEY", "TMPTOKEN"),
      NewTokenCredential("TMPID2", "TMPKEY2", "TMPTOKEN2") }

StsReplies ==
    { [err |-> "sts: AssumeRole failed", Credentials |-> NewTokenCredential("", "", "")] }
    \cup { [err |-> "nil", Credentials |-> c] : c \in StsCredentials }

(***************************************************************************)
(* Zero values.                                                            *)
(***************************************************************************)
NilClient == [nil |-> TRUE]

NilRequest == [nil |-> TRUE]

NilResponse == [nil |-> TRUE]

NotReturned == [returned |-> FALSE]

Returned(client, err) == [returned |-> TRUE, client |-> client, err |-> err]

UnsetPolicy == [set |-> FALSE, value |-> << >>]

(***************************************************************************)
(* The schema of Provider(): assume_role holds at most MaxItems entries    *)
(* and each session_duration passes validateIntegerInRange(0, 43200).      *)
(* Required on role_arn and session_name asks for the field to be given,   *)
(* which an empty string is.                                               *)
(***************************************************************************)
validateIntegerInRange(min, max, v) == min <= v /\ v <= max

SchemaValid(cfg) ==
    /\ Len(cfg.assume_role) <= MaxItems
    /\ \A i \in 1..Len(cfg.assume_role) :
          validateIntegerInRange(MinSessionDuration, MaxSessionDuration,
                                 cfg.assume_role[i].session_duration)

Init ==
    /\ d \in Configs
    /\ validated = FALSE
    /\ pc = "Unconfigured"
    /\ tcClient = NilClient
    /\ assumeRoleList = << >>
    /\ assumeRoleArn = ""
    /\ assumeRoleSessionName = ""
    /\ assumeRoleSessionDuration = 0
    /\ assumeRolePolicy = << >>
    /\ duration = << >>
    /\ request = NilRequest
    /\ response = NilResponse
    /\ trace = << >>
    /\ dispatched = << >>
    /\ ret = NotReturned

(***************************************************************************)
(* The host validates the configuration against the schema before it       *)
(* configures the provider; a configuration that fails is never handed to  *)
(* providerConfigure.                                                      *)
(***************************************************************************)
Validate ==
    /\ pc = "Unconfigured"
    /\ ~validated
    /\ validated' = TRUE
    /\ IF SchemaValid(d)
       THEN /\ pc' = "Unconfigured"
            /\ ret' = ret
       ELSE /\ pc' = "Failed"
            /\ ret' = Returned(NilClient, "ValidationError")
    /\ UNCHANGED << d, tcClient, assumeRoleList, assumeRoleArn,
                    assumeRoleSessionName, assumeRoleSessionDuration,
                    assumeRolePolicy, duration, request, response, trace,
                    dispatched >>

(***************************************************************************)
(* LoadBase with the security token left out of the credential.            *)
(***************************************************************************)
LoadBase_DropToken ==
    /\ pc = "Unconfigured"
    /\ pc' = "BaseCredentialLoaded"
    /\ tcClient' = [Credential |-> NewTokenCredential(d.secret_id, d.secret_key, ""),
                    Region |-> d.region,
                    Protocol |-> d.protocol,
                    Domain |-> d.domain]
    /\ UNCHANGED << d, validated, assumeRoleList, assumeRoleArn,
                    assumeRoleSessionName, assumeRoleSessionDuration,
                    assumeRolePolicy, duration, request, response, trace,
                    dispatched, ret >>

(***************************************************************************)
(* providerConfigure, lines 216-234: the standard client.  The function    *)
(* can be entered without validation (Configure does not validate).        *)
(***************************************************************************)
LoadBase ==
    /\ pc = "Unconfigured"
    /\ pc' = "BaseCredentialLoaded"
    /\ tcClient' = [Credential |-> NewTokenCredential(d.secret_id, d.secret_key,
                                                      d.security_token),
                    Region |-> d.region,
                    Protocol |-> d.protocol,
                    Domain |-> d.domain]
    /\ UNCHANGED << d, validated, assumeRoleList, assumeRoleArn,
                    assumeRoleSessionName, assumeRoleSessionDuration,
                    assumeRolePolicy, duration, request, response, trace,
                    dispatched, ret >>

(***************************************************************************)
(* AssumeRoleActive taking the first entry of any non-empty list.          *)
(***************************************************************************)
AssumeRoleActive_AtLeastOne(list) == Len(list) >= 1

(***************************************************************************)
(* Lines 237-243: the assume-role path is taken when the list has exactly  *)
(* one entry.                                                              *)
(***************************************************************************)
AssumeRoleActive(list) == Len(list) = 1

ReadAssumeRole ==
    /\ pc = "BaseCredentialLoaded"
    /\ assumeRoleList' = d.assume_role
    /\ IF AssumeRoleActive(d.assume_role)
       THEN /\ assumeRoleArn' = d.assume_role[1].role_arn
            /\ assumeRoleSessionName' = d.assume_role[1].session_name
            /\ assumeRoleSessionDuration' = d.assume_role[1].session_duration
            /\ assumeRolePolicy' = d.assume_role[1].policy
            /\ pc' = "SessionDuration"
       ELSE /\ UNCHANGED << assumeRoleArn, assumeRoleSessionName,
                            assumeRoleSessionDuration, assumeRolePolicy >>
            /\ pc' = "Return"
    /\ UNCHANGED << d, validated, tcClient, duration, request, response,
                    trace, dispatched, ret >>

(***************************************************************************)
(* SessionDurationFallback with the parse error swallowed into the         *)
(* default duration.                                                       *)
(***************************************************************************)
SessionDurationFallback_Swallow ==
    /\ pc = "SessionDuration"
    /\ IF assumeRoleSessionDuration = 0
       THEN \E e \in EnvValues :
              /\ duration' = e
              /\ IF e /= << >>
                 THEN assumeRoleSessionDuration' =
                         IF Atoi(e).val = 0 THEN DefaultSessionDuration
                         ELSE Atoi(e).val
                 ELSE UNCHANGED assumeRoleSessionDuration
       ELSE UNCHANGED << duration, assumeRoleSessionDuration >>
    /\ pc' = "BuildRequest"
    /\ UNCHANGED << d, validated, tcClient, assumeRoleList, assumeRoleArn,
                    assumeRoleSessionName, assumeRolePolicy, request, response,
                    trace, dispatched, ret >>

(***************************************************************************)
(* Lines 244-255: a session duration of 0 is replaced from the             *)
(* environment.                                                            *)
(***************************************************************************)
SessionDurationFallback ==
    /\ pc = "SessionDuration"
    /\ IF assumeRoleSessionDuration = 0
       THEN \E e \in EnvValues :
              /\ duration' = e
              /\ IF e /= << >>
                 THEN IF Atoi(e).err /= "nil"
                      THEN /\ assumeRoleSessionDuration' = Atoi(e).val
                           /\ pc' = "Failed"
                           /\ ret' = Returned(NilClient, Atoi(e).err)
                      ELSE /\ assumeRoleSessionDuration' =
                                 IF Atoi(e).val = 0 THEN DefaultSessionDuration
                                 ELSE Atoi(e).val
                           /\ pc' = "BuildRequest"
                           /\ ret' = ret
                 ELSE /\ pc' = "BuildRequest"
                      /\ UNCHANGED << assumeRoleSessionDuration, ret >>
       ELSE /\ pc' = "BuildRequest"
            /\ UNCHANGED << duration, assumeRoleSessionDuration, ret >>
    /\ UNCHANGED << d, validated, tcClient, assumeRoleList, assumeRoleArn,
                    assumeRoleSessionName, assumeRolePolicy, request, response,
                    trace, dispatched >>

(***************************************************************************)
(* BuildRequest attaching the policy as written, and also when empty.      *)
(***************************************************************************)
BuildRequest_RawPolicy ==
    /\ pc = "BuildRequest"
    /\ request' = [RoleArn |-> assumeRoleArn,
                   RoleSessionName |-> assumeRoleSessionName,
                   DurationSeconds |-> ToUint64(assumeRoleSessionDuration),
                   Policy |-> [set |-> TRUE, value |-> assumeRolePolicy]]
    /\ pc' = "RateLimit"
    /\ UNCHANGED << d, validated, tcClient, assumeRoleList, assumeRoleArn,
                    assumeRoleSessionName, assumeRoleSessionDuration,
                    assumeRolePolicy, duration, response, trace, dispatched,
                    ret >>

(***************************************************************************)
(* Lines 257-265: the AssumeRole request.                                  *)
(***************************************************************************)
BuildRequest ==
    /\ pc = "BuildRequest"
    /\ request' = [RoleArn |-> assumeRoleArn,
                   RoleSessionName |-> assumeRoleSessionName,
                   DurationSeconds |-> ToUint64(assumeRoleSessionDuration),
                   Policy |-> IF assumeRolePolicy /= << >>
                              THEN [set |-> TRUE,
                                    value |-> QueryEscape(assumeRolePolicy)]
                              ELSE UnsetPolicy]
    /\ pc' = "RateLimit"
    /\ UNCHANGED << d, validated, tcClient, assumeRoleList, assumeRoleArn,
                    assumeRoleSessionName, assumeRoleSessionDuration,
                    assumeRolePolicy, duration, response, trace, dispatched,
                    ret >>

(***************************************************************************)
(* request.GetAction(): the action name NewAssumeRoleRequest sets.         *)
(***************************************************************************)
GetAction(req) == "AssumeRole"

(***************************************************************************)
(* RateLimitCheck that goes on to the exchange without the check.          *)
(***************************************************************************)
RateLimitCheck_Skipped ==
    /\ pc = "RateLimit"
    /\ pc' = "AssumeRoleRequested"
    /\ UNCHANGED << d, validated, tcClient, assumeRoleList, assumeRoleArn,
                    assumeRoleSessionName, assumeRoleSessionDuration,
                    assumeRolePolicy, duration, request, response, trace,
                    dispatched, ret >>

(***************************************************************************)
(* Line 266: ratelimit.Check(request.GetAction()).                         *)
(***************************************************************************)
RateLimitCheck ==
    /\ pc = "RateLimit"
    /\ trace' = Append(trace, [op |-> "ratelimit.Check",
                               action |-> GetAction(request)])
    /\ pc' = "AssumeRoleRequested"
    /\ UNCHANGED << d, validated, tcClient, assumeRoleList, assumeRoleArn,
                    assumeRoleSessionName, assumeRoleSessionDuration,
                    assumeRolePolicy, duration, request, response, dispatched,
                    ret >>

(***************************************************************************)
(* AssumeRole that falls back to the base client when the exchange fails.  *)
(***************************************************************************)
AssumeRole_Degraded ==
    /\ pc = "AssumeRoleRequested"
    /\ trace' = Append(trace, [op |-> "AssumeRole",
                               action |-> GetAction(request)])
    /\ dispatched' = Append(dispatched, request)
    /\ \E reply \in StsReplies :
          IF reply.err /= "nil"
          THEN /\ pc' = "Return"
               /\ response' = response
          ELSE /\ pc' = "AssumeRoleGranted"
               /\ response' = [Credentials |-> reply.Credentials]
    /\ UNCHANGED << d, validated, tcClient, assumeRoleList, assumeRoleArn,
                    assumeRoleSessionName, assumeRoleSessionDuration,
                    assumeRolePolicy, duration, request, ret >>

(***************************************************************************)
(* Lines 267-270: the exchange.  An error ends the run with a nil client.  *)
(***************************************************************************)
AssumeRole ==
    /\ pc = "AssumeRoleRequested"
    /\ trace' = Append(trace, [op |-> "AssumeRole",
                               action |-> GetAction(request)])
    /\ dispatched' = Append(dispatched, request)
    /\ \E reply \in StsReplies :
          IF reply.err /= "nil"
          THEN /\ pc' = "Failed"
               /\ ret' = Returned(NilClient, reply.err)
               /\ response' = response
          ELSE /\ pc' = "AssumeRoleGranted"
               /\ ret' = ret
               /\ response' = [Credentials |-> reply.Credentials]
    /\ UNCHANGED << d, validated, tcClient, assumeRoleList, assumeRoleArn,
                    assumeRoleSessionName, assumeRoleSessionDuration,
                    assumeRolePolicy, duration, request >>

(***************************************************************************)
(* UseStsCredentials that keeps the base credential's token.               *)
(***************************************************************************)
UseStsCredentials_KeepToken ==
    /\ pc = "AssumeRoleGranted"
    /\ tcClient' = [tcClient EXCEPT !.Credential =
                       NewTokenCredential(response.Credentials.SecretId,
                                          response.Credentials.SecretKey,
                                          tcClient.Credential.Token)]
    /\ pc' = "Return"
    /\ UNCHANGED << d, validated, assumeRoleList, assumeRoleArn,
                    assumeRoleSessionName, assumeRoleSessionDuration,
                    assumeRolePolicy, duration, request, response, trace,
                    dispatched, ret >>

(***************************************************************************)
(* Lines 271-276: the STS credentials replace the base credential.         *)
(***************************************************************************)
UseStsCredentials ==
    /\ pc = "AssumeRoleGranted"
    /\ tcClient' = [tcClient EXCEPT !.Credential =
                       NewTokenCredential(response.Credentials.SecretId,
                                          response.Credentials.SecretKey,
                                          response.Credentials.Token)]
    /\ pc' = "Return"
    /\ UNCHANGED << d, validated, assumeRoleList, assumeRoleArn,
                    assumeRoleSessionName, assumeRoleSessionDuration,
                    assumeRolePolicy, duration, request, response, trace,
                    dispatched, ret >>

(***************************************************************************)
(* Line 279: return &tcClient, nil.                                        *)
(***************************************************************************)
Return ==
    /\ pc = "Return"
    /\ ret' = Returned(tcClient, "nil")
    /\ pc' = "Ready"
    /\ UNCHANGED << d, validated, tcClient, assumeRoleList, assumeRoleArn,
                    assumeRoleSessionName, assumeRoleSessionDuration,
                    assumeRolePolicy, duration, request, response, trace,
                    dispatched >>

Next ==
    \/ Validate
    \/ LoadBase
    \/ ReadAssumeRole
    \/ SessionDurationFallback
    \/ BuildRequest
    \/ RateLimitCheck
    \/ AssumeRole
    \/ UseStsCredentials
    \/ Return

Spec == Init /\ [][Next]_vars

(***************************************************************************)
(* Vocabulary of the properties.                                           *)
(***************************************************************************)
BaseCredential ==
    [SecretId |-> d.secret_id, SecretKey |-> d.secret_key,
     Token |-> d.security_token]

BaseClient ==
    [Credential |-> BaseCredential, Region |-> d.region,
     Protocol |-> d.protocol, Domain |-> d.domain]

OneEntry == Len(d.assume_role) = 1

\* A validated run whose single entry names a role and a session.
WellFormedRun ==
    /\ validated
    /\ OneEntry
    /\ d.assume_role[1].role_arn /= ""
    /\ d.assume_role[1].session_name /= ""

Entry == d.assume_role[1]

RequestBuilt == request /= NilRequest

CountOp(op) == Cardinality({ i \in 1..Len(trace) : trace[i].op = op })

CheckEvent == [op |-> "ratelimit.Check", action |-> "AssumeRole"]

ExchangeEvent == [op |-> "AssumeRole", action |-> "AssumeRole"]

ReturnedOk == ret /= NotReturned /\ ret.err = "nil"

ReturnedError == ret /= NotReturned /\ ret.err /= "nil"

ExchangeFailed == dispatched /= << >> /\ response = NilResponse

DurationInRange(u) ==
    /\ u[1] = 0
    /\ u[2] = 0
    /\ u[3] * LimbBase + u[4] <= MaxSessionDuration

DecimalChars == { Digits[i] : i \in 1..10 }

IsNumeric(e) ==
    LET body == IF e /= << >> /\ e[1] \in {"+", "-"} THEN Tail(e) ELSE e
    IN  body /= << >> /\ \A i \in 1..Len(body) : body[i] \in DecimalChars

\* What the receiver of a query-escaped text reads back.
UnHex(h) ==
    CHOOSE c \in PolicyAlphabet \cup {"+", "%"} :
        c \notin Unreserved /\ c /= " " /\ HexOf(c) = h

RECURSIVE QueryUnescape(_)
QueryUnescape(s) ==
    IF s = << >> THEN << >>
    ELSE IF Head(s) = "+" THEN << " " >> \o QueryUnescape(Tail(s))
    ELSE IF Head(s) = "%"
         THEN << UnHex(SubSeq(s, 2, 3)) >> \o QueryUnescape(SubSeq(s, 4, Len(s)))
    ELSE << Head(s) >> \o QueryUnescape(Tail(s))

UrlSafe == Unreserved \cup { "+", "%" }

(***************************************************************************)
(* C1: with an empty assume_role set the run never fails, never calls the  *)
(* rate-limit check or the exchange, and returns with no error a client    *)
(* whose credential is the configured (secret_id, secret_key,              *)
(* security_token), with the configured region, protocol and domain.       *)
(***************************************************************************)
C1_NoAssumeRoleKeepsBase ==
    d.assume_role = << >> =>
        /\ pc /= "Failed"
        /\ trace = << >>
        /\ dispatched = << >>
        /\ pc = "Ready" => ret = Returned(BaseClient, "nil")

C1_Witness ==
    /\ d.assume_role = << >>
    /\ d.security_token = "TOKEN"
    /\ pc = "Ready"
    /\ ret.client.Credential.Token = "TOKEN"

(***************************************************************************)
(* C2: with one assume_role entry and a successful exchange, the returned  *)
(* client's credential is exactly the three fields the exchange returned;  *)
(* no field of the base credential is left in it.                          *)
(***************************************************************************)
C2_StsCredentialReplacesBase ==
    (OneEntry /\ ReturnedOk) =>
        /\ response /= NilResponse
        /\ ret.client.Credential.SecretId = response.Credentials.SecretId
        /\ ret.client.Credential.SecretKey = response.Credentials.SecretKey
        /\ ret.client.Credential.Token = response.Credentials.Token
        /\ DOMAIN ret.client.Credential = {"SecretId", "SecretKey", "Token"}
        /\ ret.client.Credential.SecretId /= d.secret_id
        /\ ret.client.Credential.SecretKey /= d.secret_key
        /\ ret.client.Credential.Token /= d.security_token
        /\ ret.client = [BaseClient EXCEPT !.Credential = response.Credentials]

C2_Witness ==
    /\ OneEntry
    /\ d.security_token = "TOKEN"
    /\ pc = "Ready"
    /\ ret.client.Credential = NewTokenCredential("TMPID2", "TMPKEY2", "TMPTOKEN2")

(***************************************************************************)
(* C3: with one entry whose session_duration is 0, the DurationSeconds of  *)
(* the request is the environment value when that is set and parses to a   *)
(* non-zero integer, and 7200 when it is unset, empty or parses to zero.   *)
(* Stated of the validated runs whose entry names a role and a session.    *)
(***************************************************************************)
C3_ClaimedDuration(e) ==
    IF e /= << >> /\ Atoi(e).val /= 0 THEN Atoi(e).val
    ELSE DefaultSessionDuration

C3_DurationFallbackChain ==
    (WellFormedRun /\ RequestBuilt /\ Entry.session_duration = 0) =>
        request.DurationSeconds = ToUint64(C3_ClaimedDuration(duration))

(***************************************************************************)
(* C4: with one entry whose session_duration is 0 and a non-numeric        *)
(* environment value, the run fails with an error and a nil client, and    *)
(* neither the rate-limit check nor the exchange was ever called.          *)
(***************************************************************************)
C4_UnparsableOverrideFails ==
    (OneEntry /\ Entry.session_duration = 0 /\ duration /= << >>
        /\ ~IsNumeric(duration)) =>
        /\ pc = "Failed"
        /\ ReturnedError
        /\ ret.client = NilClient
        /\ request = NilRequest
        /\ trace = << >>
        /\ dispatched = << >>

C4_Witness ==
    /\ validated
    /\ OneEntry
    /\ Entry.session_duration = 0
    /\ duration = << "a", "a", "a" >>
    /\ pc = "Failed"

(***************************************************************************)
(* C5: a failed exchange ends the run with that error and a nil client,    *)
(* after a single exchange; and a return without error with one            *)
(* assume_role entry means exactly one exchange, which succeeded, whose    *)
(* credential the client carries.                                          *)
(***************************************************************************)
C5_ExchangeErrorIsFatal ==
    /\ ExchangeFailed =>
          /\ pc = "Failed"
          /\ ret = Returned(NilClient, "sts: AssumeRole failed")
          /\ Len(dispatched) = 1
          /\ CountOp("AssumeRole") = 1
    /\ ReturnedError => ret.client = NilClient
    /\ (ReturnedOk /\ OneEntry) =>
          /\ Len(dispatched) = 1
          /\ CountOp("AssumeRole") = 1
          /\ response /= NilResponse
          /\ ret.client.Credential = response.Credentials

C5_Witness ==
    /\ ExchangeFailed
    /\ pc = "Failed"
    /\ ret.err = "sts: AssumeRole failed"

(***************************************************************************)
(* C6: in a run whose configuration passed the schema, every request       *)
(* dispatched carries a DurationSeconds within [0,43200], whether it came  *)
(* from session_duration or from the environment.  Stated of the runs      *)
(* whose entry names a role and a session.                                 *)
(***************************************************************************)
C6_DispatchedDurationInRange ==
    WellFormedRun =>
        \A i \in 1..Len(dispatched) : DurationInRange(dispatched[i].DurationSeconds)

(***************************************************************************)
(* C7: the request's Policy is set exactly when the configured policy is   *)
(* non-empty, and then holds its URL-escaped form: text of URL-safe        *)
(* characters only that unescapes to the policy ("a b" is sent as "a+b").  *)
(***************************************************************************)
C7_PolicyEscapedOrOmitted ==
    RequestBuilt =>
        /\ request.Policy.set <=> Entry.policy /= << >>
        /\ ~request.Policy.set => request.Policy = UnsetPolicy
        /\ request.Policy.set =>
              /\ \A i \in 1..Len(request.Policy.value) :
                    request.Policy.value[i] \in UrlSafe
              /\ Entry.policy \in Policies =>
                    QueryUnescape(request.Policy.value) = Entry.policy
              /\ Entry.policy = << "a", " ", "b" >> =>
                    request.Policy.value = << "a", "+", "b" >>

C7_Witness ==
    /\ dispatched /= << >>
    /\ Entry.policy = << "a", " ", "/" >>
    /\ dispatched[1].Policy = [set |-> TRUE, value |-> << "a", "+", "%", "2", "F" >>]

(***************************************************************************)
(* C8: an exchange is always directly preceded by a rate-limit check for   *)
(* the action "AssumeRole", and a run makes at most one exchange: the      *)
(* calls of a run are none, a check, or a check and then one exchange.     *)
(***************************************************************************)
C8_CheckBeforeSingleExchange ==
    /\ trace \in { << >>, << CheckEvent >>, << CheckEvent, ExchangeEvent >> }
    /\ Len(dispatched) = CountOp("AssumeRole")
    /\ pc = "Failed" /\ ~ExchangeFailed => trace = << >>

C8_Witness ==
    /\ pc = "Ready"
    /\ trace = << CheckEvent, ExchangeEvent >>

(***************************************************************************)
(* C9 as stated: 0 entries, no role assumption and the base credential     *)
(* kept; 1 entry, the exchange with that entry; more than 1 entry, the     *)
(* exchange still performed, with the first entry.                         *)
(***************************************************************************)
C9_FirstEntryOfManyUsed ==
    pc = "Ready" =>
        /\ Len(d.assume_role) = 0 =>
              dispatched = << >> /\ ret.client.Credential = BaseCredential
        /\ Len(d.assume_role) >= 1 =>
              /\ Len(dispatched) = 1
              /\ dispatched[1].RoleArn = Entry.role_arn
              /\ dispatched[1].RoleSessionName = Entry.session_name

(***************************************************************************)
(* C9 amended: the exchange is performed exactly when there is 1 entry,    *)
(* with that entry; with 0 entries or with more than 1, no check and no    *)
(* exchange is made, every entry is ignored and the base credential kept.  *)
(***************************************************************************)
C9_OnlyExactlyOneEntryAssumes ==
    /\ ~OneEntry => trace = << >> /\ dispatched = << >> /\ request = NilRequest
    /\ pc = "Ready" =>
          /\ ~OneEntry => ret = Returned(BaseClient, "nil")
          /\ OneEntry =>
                /\ Len(dispatched) = 1
                /\ dispatched[1].RoleArn = Entry.role_arn
                /\ dispatched[1].RoleSessionName = Entry.session_name

C9_Witness ==
    /\ Len(d.assume_role) = 2
    /\ d.assume_role[1].role_arn = "role"
    /\ d.assume_role[1].session_name = "session"
    /\ d.assume_role[1].session_duration = 3600
    /\ pc = "Ready"
    /\ ret.client.Credential = BaseCredential

(***************************************************************************)
(* C10: a single entry with an empty role_arn or an empty session_name     *)
(* makes the run fail before the rate-limit check and the exchange, so no  *)
(* request with an empty RoleArn or RoleSessionName is dispatched.         *)
(* Stated of the runs whose configuration passed the schema.               *)
(***************************************************************************)
C10_EmptyRequiredFieldRejected ==
    validated =>
    /\ \A i \in 1..Len(dispatched) :
          dispatched[i].RoleArn /= "" /\ dispatched[i].RoleSessionName /= ""
    /\ (OneEntry /\ (Entry.role_arn = "" \/ Entry.session_name = "")) =>
          /\ trace = << >>
          /\ pc /= "Ready"

====
